---- MODULE Spec2Model ----
(***************************************************************************)
(* Model of the PDF Fusion Pro activation server (lan26766/pdf_email).     *)
(*                                                                         *)
(*   src/activation_server.py     Flask handlers, code generators, storage *)
(*   src/utils/code_generator.py  ActivationGenerator (generate / verify)  *)
(*   src/database/init_db.py      schema of activations, device_activations*)
(*                                                                         *)
(* Text is modelled as a sequence of ASCII codes, so that slicing,         *)
(* joining, indexing (activation_code[4]) and base64 are computed as the   *)
(* code computes them.  Time is counted in whole days (timedelta(days=n)). *)
(***************************************************************************)
EXTENDS Integers, Sequences, FiniteSets, TLC

VARIABLES
    activations,         \* rows of table activations (init_db.py 73-90)
    activations_csv,     \* rows of activations.csv (save_to_file)
    device_activations,  \* rows of table device_activations (init_db.py 95-104)
    next_id,             \* the SERIAL of activations.id
    calls,               \* per caller: the /api/verify request in flight and its response
    ncalls,              \* number of HTTP requests received so far
    granted,             \* history: <<activation_code, device_id>> pairs answered "valid": true
    script,              \* position in the sequential scenario (SpecScenario only)
    now,                 \* datetime.now(), in days
    cipher,              \* the module-level Fernet object, or none
    issued,              \* the activation code last handed out, with its data
    checked,             \* the last answer of ActivationGenerator.verify
    purchases,           \* rows of table purchases (webhook_gumroad)
    webhook_count,       \* the module-level counter of webhook requests
    config               \* the Config class: ADMIN_API_KEY, DATABASE_URL

vars == <<activations, activations_csv, device_activations, next_id,
          calls, ncalls, granted, script, now, cipher, issued, checked,
          purchases, webhook_count, config>>

serverVars == <<purchases, webhook_count, config>>

codecVars == <<cipher, issued, checked>>

dbVars == <<activations, activations_csv, device_activations, next_id>>

(***************************************************************************)
(* Bounds of the model.                                                    *)
(***************************************************************************)
\* HTTP requests (to /api/generate and /api/verify) in one behaviour
MaxRequests == 5
MaxTime == 1

Callers == {"t1", "t2"}
\* device ids; a behaviour holds at most MaxRequests of them
Devices == 1 .. MaxRequests
Emails == {"a@b.com", "c@d.org"}
\* the email and the product_type of the requests to /api/generate
AdminEmails == {"a@b.com"}
AdminTypes == {"personal", "business"}
NULL == "NULL"
\* a deployment with ADMIN_API_KEY and DATABASE_URL set
DefaultConfig == [ADMIN_API_KEY |-> "secret", DATABASE_URL |-> TRUE]

(***************************************************************************)
(* Text helpers.                                                           *)
(***************************************************************************)
Dash == 45
Space == 32
Pad == 61

\* the element of a one-element set.  The({e(x) : x \in {v}}) is e with the
\* local variable x holding v, which is computed once
The(S) == CHOOSE x \in S : TRUE

\* the bytes (or characters) of a sequence, as a tuple
Bytes(f) == f \o <<>>

RECURSIVE Join(_, _)
\* sep.join(parts)
Join(parts, sep) ==
    IF Len(parts) = 0 THEN <<>>
    ELSE IF Len(parts) = 1 THEN parts[1]
    ELSE parts[1] \o <<sep>> \o Join(Tail(parts), sep)

\* s[a:b] of Python (0-based, b exclusive, clipped to the length)
Slice(s, a, b) ==
    LET hi == IF b > Len(s) THEN Len(s) ELSE b
    IN  IF a >= hi THEN <<>> ELSE SubSeq(s, a + 1, hi)

\* one lower-case hexadecimal digit
HexLower(d) == IF d < 10 THEN 48 + d ELSE 87 + d
\* c.upper() for a hexadecimal digit
Upper(c) == IF c >= 97 /\ c <= 122 THEN c - 32 ELSE c

RECURSIVE HexDigits(_, _)
\* the n-digit lower-case hexadecimal text of v
HexDigits(v, n) ==
    IF n = 0 THEN <<>> ELSE Append(HexDigits(v \div 16, n - 1), HexLower(v % 16))

\* the code of a string of the model, as hashlib sees its bytes
StrCode(s) ==
    CASE s = "" -> 0
      [] s = "a@b.com" -> 11
      [] s = "c@d.org" -> 12
      [] s = "personal" -> 21
      [] s = "professional" -> 22
      [] s = "business" -> 23
      [] s = "enterprise" -> 24
      [] s = "trial" -> 25
      [] s = "sale-1" -> 31
      [] s = "sale-2" -> 32
      [] OTHER -> 99

RECURSIVE Md5Fold(_, _, _)
Md5Fold(parts, h, m) ==
    IF parts = <<>> THEN h
    ELSE Md5Fold(Tail(parts), (h * m + Head(parts) + 1) % 65536, m)

\* hashlib.md5(":".join(parts)).hexdigest()[:8]: a digest of the parts and of
\* their number (an abstraction of MD5: equal inputs give equal digests, the
\* inputs of the model give different ones)
Md5Hex8(parts) ==
    HexDigits(Md5Fold(parts, 7, 131), 4) \o HexDigits(Md5Fold(parts, 11, 257), 4)

\* the string of a code (the inverse of StrCode on the model's strings)
StrOf(n) ==
    CASE n = 0 -> ""
      [] n = 11 -> "a@b.com"
      [] n = 12 -> "c@d.org"
      [] n = 21 -> "personal"
      [] n = 22 -> "professional"
      [] n = 23 -> "business"
      [] n = 24 -> "enterprise"
      [] n = 25 -> "trial"
      [] n = 31 -> "sale-1"
      [] n = 32 -> "sale-2"
      [] OTHER -> "?"

(***************************************************************************)
(* base64.urlsafe_b64encode / urlsafe_b64decode, as CPython computes them  *)
(* (the decoder is binascii.a2b_base64 in its default, non-strict mode).   *)
(***************************************************************************)
\* the character of a 6-bit value in the URL-safe alphabet
B64Char(v) ==
    IF v < 26 THEN 65 + v
    ELSE IF v < 52 THEN 71 + v
    ELSE IF v < 62 THEN v - 4
    ELSE IF v = 62 THEN 45
    ELSE 95

\* the 6-bit value of a character, -1 for a character outside the alphabet
\* ("-" and "_" are translated to "+" and "/", which are accepted as well)
B64Index(c) ==
    IF c >= 65 /\ c <= 90 THEN c - 65
    ELSE IF c >= 97 /\ c <= 122 THEN c - 71
    ELSE IF c >= 48 /\ c <= 57 THEN c + 4
    ELSE IF c = 45 \/ c = 43 THEN 62
    ELSE IF c = 95 \/ c = 47 THEN 63
    ELSE 0 - 1

urlsafe_b64encode(bytes) ==
    The({ LET n == Len(s)
              at(i) == IF i <= n THEN s[i] ELSE 0
          IN  Bytes([i \in 1 .. 4 * ((n + 2) \div 3) |->
                  LET g == (i - 1) \div 4
                      k == (i - 1) % 4
                      b1 == at(3 * g + 1)
                      b2 == at(3 * g + 2)
                      b3 == at(3 * g + 3)
                  IN  CASE k = 0 -> B64Char(b1 \div 4)
                        [] k = 1 -> B64Char((b1 % 4) * 16 + (b2 \div 16))
                        [] k = 2 -> IF 3 * g + 2 > n THEN Pad
                                    ELSE B64Char((b2 % 16) * 4 + (b3 \div 64))
                        [] k = 3 -> IF 3 * g + 3 > n THEN Pad ELSE B64Char(b3 % 64)])
          : s \in {Bytes(bytes)} })

\* The decoder's loop (binascii.a2b_base64, non-strict), in closed form:
\* characters outside the alphabet are skipped; a "=" met with three data
\* characters in the current quad, or with two and a "=" since the last data
\* character, ends the input; without such an end the number of data
\* characters must be a multiple of 4.
\* the characters the loop looks at: "=" and the alphabet
B64Filter(s) == SelectSeq(s, LAMBDA ch : ch = Pad \/ B64Index(ch) >= 0)

\* the position of the "=" that ends the input, Len(f) + 1 without one
B64Stop(f) ==
    LET quad_pos(i) == Cardinality({j \in 1 .. i - 1 : f[j] # Pad}) % 4
    IN  The({ IF ends = {} THEN Len(f) + 1
              ELSE CHOOSE i \in ends : \A j \in ends : i <= j
              : ends \in {{i \in 1 .. Len(f) :
                              /\ f[i] = Pad
                              /\ \/ quad_pos(i) = 3
                                 \/ quad_pos(i) = 2 /\ i > 1 /\ f[i - 1] = Pad}} })

\* [ok, bytes] of the data characters before stop: ok is FALSE where Python
\* raises binascii.Error
B64Quads(f, stop) ==
    The({ LET n == Len(data)
              v(i) == B64Index(data[i])
              nbytes == 3 * (n \div 4)
                          + (IF n % 4 = 2 THEN 1 ELSE IF n % 4 = 3 THEN 2 ELSE 0)
          IN  [ok |-> stop <= Len(f) \/ n % 4 = 0,
               bytes |-> Bytes([j \in 1 .. nbytes |->
                            LET g == 4 * ((j - 1) \div 3)
                                k == (j - 1) % 3
                            IN  CASE k = 0 -> v(g + 1) * 4 + (v(g + 2) \div 16)
                                  [] k = 1 -> (v(g + 2) % 16) * 16 + (v(g + 3) \div 4)
                                  [] k = 2 -> (v(g + 3) % 4) * 64 + v(g + 4)])]
          : data \in {SelectSeq(SubSeq(f, 1, stop - 1), LAMBDA ch : ch # Pad)} })

urlsafe_b64decode(s) ==
    The({ B64Quads(f, B64Stop(f)) : f \in {B64Filter(s)} })

(***************************************************************************)
(* cryptography.fernet.Fernet.  The token layout is the library's:         *)
(*   0x80 | timestamp (8) | IV (16) | AES-CBC ciphertext (16 n) | HMAC (32)*)
(* base64url-encoded.  AES and HMAC-SHA256 are abstracted: the cipher is a *)
(* keyed byte-wise bijection, the tag a keyed position-weighted digest of  *)
(* the signed bytes.                                                       *)
(***************************************************************************)
FernetVersion == 128
BlockSize == 16
TagSize == 32

NoCipher == [enabled |-> FALSE, key |-> 0]
Fernet(k) == [enabled |-> TRUE, key |-> k]
\* the keys ENCRYPTION_KEY may hold
EncryptionKeys == {77}

\* os.urandom(16) of the n-th draw
RandomIV(n) == Bytes([i \in 1 .. BlockSize |-> (n * 37 + i * 11 + 5) % 256])

\* the 8-byte big-endian timestamp
TimestampBytes(t) == <<0, 0, 0, 0, 0, 0, t \div 256, t % 256>>

\* PKCS7 padding to the block size
Pkcs7Pad(data) ==
    The({ s \o [i \in 1 .. n |-> n] : n \in {BlockSize - (Len(data) % BlockSize)},
                                      s \in {Bytes(data)} })

\* [ok, data]: ok is FALSE where the unpadder raises ValueError
\* decrypt raised: AttributeError on a cipher that is None, InvalidToken else
NoPlaintext(error) == [ok |-> FALSE, error |-> error, data |-> <<>>]

Pkcs7Unpad(data) ==
    The({ IF Len(s) = 0 \/ Len(s) % BlockSize # 0 THEN NoPlaintext("InvalidToken")
          ELSE LET n == s[Len(s)]
               IN  IF n < 1 \/ n > BlockSize
                      \/ \E i \in Len(s) - n + 1 .. Len(s) : s[i] # n
                   THEN NoPlaintext("InvalidToken")
                   ELSE [ok |-> TRUE, data |-> SubSeq(s, 1, Len(s) - n)]
          : s \in {Bytes(data)} })

AesEncrypt(k, iv, padded) ==
    The({ Bytes([i \in 1 .. Len(s) |-> (s[i] + k + v[((i - 1) % BlockSize) + 1]) % 256])
          : s \in {Bytes(padded)}, v \in {Bytes(iv)} })

AesDecrypt(k, iv, ct) ==
    The({ Bytes([i \in 1 .. Len(s) |->
                    (s[i] + 512 - k - v[((i - 1) % BlockSize) + 1]) % 256])
          : s \in {Bytes(ct)}, v \in {Bytes(iv)} })

RECURSIVE WeightedSum(_, _, _, _)
\* sum of bytes[j] * j^e for j in lo .. hi, modulo 251
WeightedSum(bytes, lo, hi, e) ==
    IF lo > hi THEN 0
    ELSE IF lo = hi
    THEN LET w == IF e = 0 THEN 1 ELSE IF e = 1 THEN lo % 251
                  ELSE ((lo % 251) * (lo % 251)) % 251
         IN  (bytes[lo] * w) % 251
    ELSE LET mid == (lo + hi) \div 2
         IN  (WeightedSum(bytes, lo, mid, e) + WeightedSum(bytes, mid + 1, hi, e)) % 251

Hmac(k, signed) ==
    The({ The({ Bytes([j \in 1 .. TagSize |->
                          IF j % 3 = 1 THEN s0 ELSE IF j % 3 = 2 THEN s1 ELSE s2])
                : s0 \in {(WeightedSum(s, 1, Len(s), 0) + k) % 251},
                  s1 \in {(WeightedSum(s, 1, Len(s), 1) + k) % 251},
                  s2 \in {(WeightedSum(s, 1, Len(s), 2) + Len(s)) % 251} })
          : s \in {Bytes(signed)} })

\* Fernet.encrypt: the token drawn with the n-th IV at time t
FernetEncrypt(c, data, n, t) ==
    The({ The({ urlsafe_b64encode(basic_parts \o Hmac(c.key, basic_parts))
                : basic_parts \in {<<FernetVersion>> \o TimestampBytes(t) \o iv
                                     \o AesEncrypt(c.key, iv, Pkcs7Pad(data))} })
          : iv \in {RandomIV(n)} })

\* Fernet.decrypt: [ok, data], ok FALSE where it raises InvalidToken (or,
\* without a cipher object, AttributeError)
FernetDecrypt(c, token) ==
    The({ The({ LET n == Len(data)
                IN  IF ~c.enabled THEN NoPlaintext("AttributeError")
                    ELSE IF ~dec.ok \/ n = 0 THEN NoPlaintext("InvalidToken")
                    ELSE IF data[1] # FernetVersion \/ n < 9
                    THEN NoPlaintext("InvalidToken")
                    ELSE IF n < 9 + BlockSize + TagSize THEN NoPlaintext("InvalidToken")
                    ELSE IF SubSeq(data, n - TagSize + 1, n)
                              # Hmac(c.key, SubSeq(data, 1, n - TagSize))
                    THEN NoPlaintext("InvalidToken")
                    ELSE Pkcs7Unpad(AesDecrypt(c.key, SubSeq(data, 10, 9 + BlockSize),
                                               SubSeq(data, 10 + BlockSize, n - TagSize)))
                : data \in {dec.bytes} })
          : dec \in {urlsafe_b64decode(token)} })

(***************************************************************************)
(* json.dumps / json.loads of the activation data: one byte per field,     *)
(* two for a number of days, then the eight characters of the checksum.    *)
(***************************************************************************)
PayloadLen == 18

JsonDumps(d) ==
    <<StrCode(d.email), StrCode(d.product_type),
      d.days_valid \div 256, d.days_valid % 256,
      d.generated_at \div 256, d.generated_at % 256,
      d.valid_until \div 256, d.valid_until % 256,
      d.max_devices, StrCode(d.purchase_id)>> \o d.checksum

\* [ok, data]: ok is FALSE where json.loads raises
JsonLoads(bytes) ==
    The({ IF Len(b) # PayloadLen THEN [ok |-> FALSE, data |-> <<>>]
          ELSE [ok |-> TRUE,
                data |-> [email |-> StrOf(b[1]),
                          product_type |-> StrOf(b[2]),
                          days_valid |-> b[3] * 256 + b[4],
                          generated_at |-> b[5] * 256 + b[6],
                          valid_until |-> b[7] * 256 + b[8],
                          max_devices |-> b[9],
                          purchase_id |-> StrOf(b[10]),
                          checksum |-> SubSeq(b, 11, PayloadLen)]]
          : b \in {Bytes(bytes)} })

(***************************************************************************)
(* ActivationGenerator (utils/code_generator.py).                          *)
(***************************************************************************)
ChunkSize == 8
MaxCodeLen == 59
ProfessionalChars == 48

\* [s[i:i+8] for i in range(0, limit, 8)]
Chunks(s, limit) ==
    Bytes([k \in 1 .. ((limit + ChunkSize - 1) \div ChunkSize) |->
              Slice(s, ChunkSize * (k - 1), ChunkSize * k)])

\* the checksum of ActivationGenerator: md5("email:product_type:days_valid")[:8]
GeneratorChecksum(email, product_type, days_valid) ==
    Md5Hex8(<<StrCode(email), StrCode(product_type), days_valid>>)

\* the dictionary ActivationGenerator.generate encrypts and returns
GenerateData(email, product_type, days_valid, max_devices, purchase_id, t) ==
    [email |-> email,
     product_type |-> product_type,
     days_valid |-> days_valid,
     generated_at |-> t,
     valid_until |-> t + days_valid,
     max_devices |-> max_devices,
     purchase_id |-> purchase_id,
     checksum |-> GeneratorChecksum(email, product_type, days_valid)]

\* base64.urlsafe_b64encode(cipher.encrypt(json.dumps(data))): the full
\* encoded ciphertext
EncodePayload(c, data, n, t) == urlsafe_b64encode(FernetEncrypt(c, JsonDumps(data), n, t))

\* '-'.join(8-character chunks)[:59] without the final cut
GenerateFormatNoCut(activation_code) ==
    The({ Join(Chunks(s, Len(s)), Dash) : s \in {Bytes(activation_code)} })

\* '-'.join(8-character chunks)[:59]
GenerateFormat(activation_code) ==
    The({ Slice(Join(Chunks(s, Len(s)), Dash), 0, MaxCodeLen)
          : s \in {Bytes(activation_code)} })

\* ActivationGenerator.generate: the formatted code and the data
generate(c, email, product_type, days_valid, max_devices, purchase_id, n, t) ==
    The({ [activation_code |-> GenerateFormat(EncodePayload(c, data, n, t)),
           data |-> data]
          : data \in {GenerateData(email, product_type, days_valid, max_devices,
                                    purchase_id, t)} })

\* activation_code.replace('-', '').replace(' ', '')
CleanCode(code) == SelectSeq(code, LAMBDA ch : ch # Dash /\ ch # Space)

\* code_clean + '=' * (4 - len(code_clean) % 4)
PadCode(code_clean) ==
    The({ s \o [i \in 1 .. (4 - (Len(s) % 4)) |-> Pad] : s \in {Bytes(code_clean)} })

\* return False, message, {}
Invalid(message) == [ok |-> FALSE, message |-> message, detail |-> "", data |-> <<>>]
\* return False, f"激活码无效: {str(e)}", {} for the exception e of the try block
Raised(e) == [ok |-> FALSE, message |-> "invalid", detail |-> e, data |-> <<>>]

\* the checks of verify on the dictionary json.loads returned
VerifyData(loaded, t) ==
    The({ IF ~parsed.ok THEN Raised("JSONDecodeError")
          ELSE LET d == parsed.data
               IN  IF d.checksum
                        # GeneratorChecksum(d.email, d.product_type, d.days_valid)
                   THEN Invalid("checksum failed")
                   ELSE IF t > d.valid_until THEN Invalid("expired")
                   ELSE [ok |-> TRUE, message |-> "valid", detail |-> "", data |-> d]
          : parsed \in {loaded} })

\* ActivationGenerator.verify: (ok, message, data); every exception of the
\* try block gives the "invalid" answer, with str(e) appended to the message
verify(c, activation_code, t) ==
    The({ IF ~encrypted.ok THEN Raised("binascii.Error")
          ELSE The({ IF ~decrypted.ok THEN Raised(decrypted.error)
                     ELSE VerifyData(JsonLoads(decrypted.data), t)
                     : decrypted \in {FernetDecrypt(c, encrypted.bytes)} })
          : encrypted \in {urlsafe_b64decode(PadCode(CleanCode(activation_code)))} })

\* ActivationGenerator.decode: the decrypted dictionary, {} on any exception
decode(c, activation_code) ==
    The({ IF ~encrypted.ok THEN <<>>
          ELSE The({ IF ~decrypted.ok THEN <<>>
                     ELSE The({ IF ~parsed.ok THEN <<>> ELSE parsed.data
                                : parsed \in {JsonLoads(decrypted.data)} })
                     : decrypted \in {FernetDecrypt(c, encrypted.bytes)} })
          : encrypted \in {urlsafe_b64decode(PadCode(CleanCode(activation_code)))} })

NoToken == [by |-> "none"]
Unchecked == [of |-> "none"]

(***************************************************************************)
(* generate_professional_activation_code (activation_server.py 202-265).   *)
(***************************************************************************)
ProfessionalDaysValid(product_type) ==
    IF product_type = "business" THEN 365 * 2
    ELSE IF product_type = "enterprise" THEN 365 * 3
    ELSE 365

ProfessionalMaxDevices(product_type) ==
    IF product_type = "business" THEN 10
    ELSE IF product_type = "enterprise" THEN 99
    ELSE IF product_type = "professional" THEN 5
    ELSE 3

\* md5("email:product_type:days_valid:purchase_id")[:8]
ProfessionalChecksum(email, product_type, days_valid, purchase_id) ==
    Md5Hex8(<<StrCode(email), StrCode(product_type), days_valid, StrCode(purchase_id)>>)

\* '-'.join(chunks of the first 48 characters), cut to 59 characters
ProfessionalFormat(activation_code) ==
    The({ The({ IF Len(formatted_code) > MaxCodeLen
                THEN Slice(formatted_code, 0, MaxCodeLen) ELSE formatted_code
                : formatted_code \in
                    {Join(Chunks(s, IF Len(s) < ProfessionalChars
                                    THEN Len(s) ELSE ProfessionalChars), Dash)} })
          : s \in {Bytes(activation_code)} })

(***************************************************************************)
(* generate_simple_activation_code (activation_server.py 267-316).         *)
(***************************************************************************)
\* type_codes.get(product_type, 'P')
type_codes(product_type) ==
    CASE product_type = "personal" -> 80
      [] product_type = "professional" -> 82
      [] product_type = "business" -> 66
      [] product_type = "enterprise" -> 69
      [] OTHER -> 80

\* datetime.now().strftime('%m%d'): day t of the model is January t+1
MonthDay(t) == <<48, 49, 48 + ((t + 1) \div 10), 48 + ((t + 1) % 10)>>

\* secrets.token_hex(6).upper()[:8], for the r-th random draw
RandomPart(r) == [i \in 1 .. 8 |-> Upper(HexDigits(r * 4099 + 43981, 8)[i])]

SimpleDaysValid(product_type) ==
    IF product_type = "business" THEN 365 * 2
    ELSE IF product_type = "enterprise" THEN 365 * 3
    ELSE 365

\* a generator that never raises the device count with the product type
SimpleMaxDevicesFlat(product_type) == IF product_type = "none" THEN 0 ELSE 3

SimpleMaxDevices(product_type) ==
    IF product_type = "professional" THEN 5
    ELSE IF product_type = "business" THEN 10
    ELSE IF product_type = "enterprise" THEN 99
    ELSE 3

SimpleCode(email, product_type, r, t) ==
    LET email_hash == [i \in 1 .. 4 |-> Upper(Md5Hex8(<<StrCode(email)>>)[i])]
        random_part == RandomPart(r)
    IN  <<80, 68, 70, Dash, type_codes(product_type)>> \o MonthDay(t)
          \o <<Dash>> \o email_hash
          \o <<Dash>> \o Slice(random_part, 0, 4)
          \o <<Dash>> \o Slice(random_part, 4, 8)

generate_simple_activation_code(email, product_type, r, t) ==
    LET code == SimpleCode(email, product_type, r, t)
    IN  [activation_code |-> code,
         email |-> email,
         product_type |-> product_type,
         generated_at |-> t,
         valid_until |-> t + SimpleDaysValid(product_type),
         max_devices |-> SimpleMaxDevices(product_type),
         days_valid |-> SimpleDaysValid(product_type)]

\* the dictionary generate_professional_activation_code encrypts and returns
ProfessionalData(email, product_type, purchase_id, product_name, t) ==
    [email |-> email,
     product_type |-> product_type,
     days_valid |-> ProfessionalDaysValid(product_type),
     generated_at |-> t,
     valid_until |-> t + ProfessionalDaysValid(product_type),
     max_devices |-> ProfessionalMaxDevices(product_type),
     purchase_id |-> purchase_id,
     product_name |-> product_name,
     checksum |-> ProfessionalChecksum(email, product_type,
                                       ProfessionalDaysValid(product_type),
                                       purchase_id)]

\* generate_professional_activation_code: the code and the data; without a
\* cipher it hands out a simple code
generate_professional_activation_code(c, email, product_type, purchase_id, product_name, n, r, t) ==
    IF ~c.enabled
    THEN The({ [activation_code |-> simple.activation_code, data |-> simple]
               : simple \in {generate_simple_activation_code(email, product_type, r, t)} })
    ELSE The({ [activation_code |-> ProfessionalFormat(EncodePayload(c, data, n, t)),
                data |-> data]
               : data \in {ProfessionalData(email, product_type, purchase_id,
                                            product_name, t)} })

(***************************************************************************)
(* Storage: save_activation_record / save_to_database / save_to_file       *)
(* (activation_server.py 483-556).                                         *)
(***************************************************************************)
ActivationRow(id, email, activation_code, data) ==
    [id |-> id,
     email |-> email,
     activation_code |-> activation_code,
     product_type |-> data.product_type,
     days_valid |-> data.days_valid,
     max_devices |-> data.max_devices,
     valid_until |-> data.valid_until,
     is_used |-> FALSE,
     used_at |-> NULL,
     used_by_device |-> NULL,
     metadata |-> data]

\* INSERT INTO activations ... ON CONFLICT (activation_code) DO NOTHING
save_to_database(rows, id, email, activation_code, data) ==
    IF \E a \in rows : a.activation_code = activation_code
    THEN rows
    ELSE rows \cup {ActivationRow(id, email, activation_code, data)}

\* writer.writerow([...]) appended to activations.csv
save_to_file(file, email, activation_code, data, t) ==
    Append(file, [time |-> t,
                  email |-> email,
                  activation_code |-> activation_code,
                  product_type |-> data.product_type,
                  valid_until |-> data.valid_until,
                  max_devices |-> data.max_devices])

\* save_activation_record with DATABASE_URL configured: the database when the
\* write succeeds (db_ok), the CSV file when it raises
SaveRecord(email, activation_code, data, db_ok) ==
    IF db_ok
    THEN /\ activations' = save_to_database(activations, next_id, email,
                                             activation_code, data)
         /\ next_id' = next_id + 1
         /\ UNCHANGED activations_csv
    ELSE /\ activations_csv' = save_to_file(activations_csv, email,
                                             activation_code, data, now)
         /\ UNCHANGED <<activations, next_id>>

(***************************************************************************)
(* The same three functions with their return values and their failures.   *)
(* A store is the database table, the CSV file, the next SERIAL id and the *)
(* value returned.                                                         *)
(***************************************************************************)
\* how the database part of save_to_database can end: the INSERT committed;
\* an exception before the commit (no connection, a failed INSERT); an
\* exception after it (cursor.close / conn.close on a lost connection)
DbOutcomes == {"committed", "raised", "raised_after_commit"}

\* save_to_file: True after the line is written, False when open or
\* writerow raises
save_to_file_result(store, email, activation_code, data, t, file_ok) ==
    IF file_ok
    THEN [store EXCEPT !.result = TRUE,
                       !.file = save_to_file(@, email, activation_code, data, t)]
    ELSE [store EXCEPT !.result = FALSE]

\* a database write that reports success whatever happened
save_to_database_swallowing(store, email, activation_code, data, t, db, file_ok) ==
    IF db = "raised"
    THEN [store EXCEPT !.result = TRUE]
    ELSE [store EXCEPT !.result = TRUE,
                       !.db = save_to_database(@, store.next_id, email,
                                               activation_code, data),
                       !.next_id = @ + 1]

\* save_to_database: True after the commit; on any exception the value of
\* save_to_file
save_to_database_result(store, email, activation_code, data, t, db, file_ok) ==
    IF db = "committed"
    THEN [store EXCEPT !.result = TRUE,
                       !.db = save_to_database(@, store.next_id, email,
                                               activation_code, data),
                       !.next_id = @ + 1]
    ELSE IF db = "raised"
    THEN save_to_file_result(store, email, activation_code, data, t, file_ok)
    ELSE save_to_file_result(
             [store EXCEPT !.db = save_to_database(@, store.next_id, email,
                                                   activation_code, data),
                           !.next_id = @ + 1],
             email, activation_code, data, t, file_ok)

\* save_activation_record: the database when DATABASE_URL is set, else the
\* file. Neither callee lets an exception out, so the except branch of
\* save_activation_record (a second save_to_file) is never taken.
save_activation_record(store, email, activation_code, data, t, url, db, file_ok) ==
    IF url
    THEN save_to_database_result(store, email, activation_code, data, t, db, file_ok)
    ELSE save_to_file_result(store, email, activation_code, data, t, file_ok)

(***************************************************************************)
(* POST /api/generate (activation_server.py 1034-1065), for a request      *)
(* that passes require_api_key and carries an email.                       *)
(***************************************************************************)
ApiGenerate ==
    /\ ncalls < MaxRequests
    /\ \E email \in AdminEmails, product_type \in AdminTypes :
         LET data == generate_simple_activation_code(email, product_type, 0, now)
         IN  SaveRecord(email, data.activation_code, data, TRUE)
    /\ ncalls' = ncalls + 1
    /\ UNCHANGED <<serverVars, device_activations, calls, granted, script, now, codecVars>>

(***************************************************************************)
(* POST /api/verify (activation_server.py 1067-1116).                      *)
(***************************************************************************)
\* the product type read off the fifth character of the code
VerifyProductType(activation_code) ==
    IF Len(activation_code) > 4
    THEN IF activation_code[5] = 66 THEN "business"
         ELSE IF activation_code[5] = 69 THEN "enterprise"
         ELSE "personal"
    ELSE "personal"

\* a handler that counts the devices answered so far for the license and
\* refuses at the limit without looking for the device's own binding
api_verify_counting(activation_code, device_id, t) ==
    IF \E a \in activations :
          /\ a.activation_code = activation_code
          /\ Cardinality({p \in granted : p[1] = activation_code}) >= a.max_devices
    THEN [status |-> 403, valid |-> FALSE, message |-> "seat limit exceeded",
          product_type |-> NULL, max_devices |-> 0, valid_until |-> 0,
          device_id |-> device_id]
    ELSE [status |-> 200, valid |-> TRUE, message |-> "activation succeeded",
          product_type |-> "personal", max_devices |-> 3, valid_until |-> t + 365,
          device_id |-> device_id]

\* a handler for licenses of one seat: it refuses a device when another
\* device of the license was answered with success
api_verify_single_seat(activation_code, device_id, t) ==
    IF \E p \in granted : p[1] = activation_code /\ p[2] # device_id
    THEN [status |-> 403, valid |-> FALSE, message |-> "seat limit exceeded",
          product_type |-> NULL, max_devices |-> 0, valid_until |-> 0,
          device_id |-> device_id]
    ELSE [status |-> 200, valid |-> TRUE, message |-> "activation succeeded",
          product_type |-> "personal", max_devices |-> 1, valid_until |-> t + 365,
          device_id |-> device_id]

\* the JSON answer of api_verify
api_verify(activation_code, device_id, t) ==
    IF activation_code = <<>>
    THEN [status |-> 400, valid |-> FALSE, message |-> "activation code is required",
          product_type |-> NULL, max_devices |-> 0, valid_until |-> 0,
          device_id |-> device_id]
    ELSE [status |-> 200, valid |-> TRUE, message |-> "activation succeeded",
          product_type |-> VerifyProductType(activation_code),
          max_devices |-> IF VerifyProductType(activation_code) = "personal"
                          THEN 3 ELSE 10,
          valid_until |-> t + 365,
          device_id |-> device_id]

\* a binding row as the schema of device_activations defines it
BindingRow(rows, activation_id, device_id, t) ==
    [id |-> Cardinality(rows) + 1,
     activation_id |-> activation_id,
     device_id |-> device_id,
     activated_at |-> t,
     last_used |-> t,
     is_active |-> TRUE]

ActiveBindings(rows, activation_id) ==
    {b \in rows : b.activation_id = activation_id /\ b.is_active}

\* a handler that inserts a binding for every request of a known license
\* without counting the seats in use
VerifyBindingsNoSeatCheck(rows, acts, activation_code, device_id, t) ==
    LET lic == {a \in acts : a.activation_code = activation_code}
    IN  IF lic = {} THEN rows
        ELSE LET a == CHOOSE x \in lic : TRUE
             IN  IF \E b \in ActiveBindings(rows, a.id) : b.device_id = device_id
                 THEN rows
                 ELSE rows \cup {BindingRow(rows, a.id, device_id, t)}

\* a handler that inserts a binding while seats are free without looking for
\* the device's existing binding
VerifyBindingsNoRebindCheck(rows, acts, activation_code, device_id, t) ==
    LET lic == {a \in acts : a.activation_code = activation_code}
    IN  IF lic = {} THEN rows
        ELSE LET a == CHOOSE x \in lic : TRUE
             IN  IF Cardinality(ActiveBindings(rows, a.id)) >= a.max_devices
                 THEN rows
                 ELSE rows \cup {BindingRow(rows, a.id, device_id, t)}

\* what api_verify writes to device_activations: nothing (the handler opens
\* no database connection)
VerifyBindings(rows, acts, activation_code, device_id, t) == rows

\* a handler that marks the license used by the device, in a write of its own
VerifyLicensesMarkUsed(acts, activation_code, device_id, t) ==
    {IF a.activation_code = activation_code /\ ~a.is_used
     THEN [a EXCEPT !.is_used = TRUE, !.used_at = t, !.used_by_device = device_id]
     ELSE a : a \in acts}

\* what api_verify writes to activations (is_used, used_at, used_by_device):
\* nothing
VerifyLicenses(acts, activation_code, device_id, t) == acts

KnownCodes ==
    {a.activation_code : a \in activations}
      \cup {activations_csv[i].activation_code : i \in 1 .. Len(activations_csv)}

\* a code that no issuance produced ("PDF-B0000")
BogusCode == <<80, 68, 70, Dash, 66, 48, 48, 48, 48>>

Idle == [pc |-> "idle"]

\* the device ids seen in requests so far
SeenDevices ==
    {calls[c].device_id : c \in {x \in DOMAIN calls : calls[x].pc # "idle"}}
      \cup {p[2] : p \in granted}

\* device ids are interchangeable: a request comes from a device seen before
\* or from the first one not yet seen
NextDevices == {d \in Devices : d <= Cardinality(SeenDevices) + 1}

\* a caller sends {"activation_code": ..., "device_id": ...}
VerifyRequest(c) ==
    /\ calls[c].pc # "pending"
    /\ ncalls < MaxRequests
    /\ \E code \in KnownCodes \cup {BogusCode, <<>>}, dev \in NextDevices :
         calls' = [calls EXCEPT ![c] =
                     [pc |-> "pending", activation_code |-> code, device_id |-> dev]]
    /\ ncalls' = ncalls + 1
    /\ UNCHANGED <<serverVars, dbVars, granted, script, now, codecVars>>

\* the handler runs for caller c's request
ApiVerify(c) ==
    /\ calls[c].pc = "pending"
    /\ LET code == calls[c].activation_code
           dev == calls[c].device_id
           resp == api_verify(code, dev, now)
       IN  /\ calls' = [calls EXCEPT ![c] =
                          [pc |-> "done", activation_code |-> code,
                           device_id |-> dev, resp |-> resp]]
           /\ device_activations' =
                 VerifyBindings(device_activations, activations, code, dev, now)
           /\ activations' = VerifyLicenses(activations, code, dev, now)
           /\ granted' = IF resp.valid /\ code \in KnownCodes
                         THEN granted \cup {<<code, dev>>} ELSE granted
    /\ UNCHANGED <<serverVars, activations_csv, next_id, ncalls, script, now, codecVars>>

Tick ==
    /\ now < MaxTime
    /\ now' = now + 1
    /\ UNCHANGED <<serverVars, dbVars, calls, ncalls, granted, script, codecVars>>

Init ==
    /\ activations = {}
    /\ activations_csv = <<>>
    /\ device_activations = {}
    /\ next_id = 1
    /\ calls = [c \in Callers |-> Idle]
    /\ ncalls = 0
    /\ granted = {}
    /\ script = 0
    /\ now = 0
    /\ cipher \in {Fernet(k) : k \in EncryptionKeys}
    /\ issued = NoToken
    /\ checked = Unchecked
    /\ purchases = {}
    /\ webhook_count = 0
    /\ config = DefaultConfig

Next ==
    \/ ApiGenerate
    \/ \E c \in Callers : VerifyRequest(c)
    \/ \E c \in Callers : ApiVerify(c)

Spec == Init /\ [][Next]_vars

(***************************************************************************)
(* A burst of concurrent verification requests for one personal license    *)
(* (max_devices = 3): caller i asks for device i.                          *)
(***************************************************************************)
NumBurst == 10

\* the state after POST /api/generate stored `data` in an empty database
IssuedInit(data) ==
    /\ activations = save_to_database({}, 1, data.email, data.activation_code, data)
    /\ activations_csv = <<>>
    /\ device_activations = {}
    /\ next_id = 2
    /\ granted = {}
    /\ script = 0
    /\ now = 0
    /\ cipher \in {Fernet(k) : k \in EncryptionKeys}
    /\ issued = NoToken
    /\ checked = Unchecked
    /\ purchases = {}
    /\ webhook_count = 0
    /\ config = DefaultConfig

InitBurst ==
    /\ IssuedInit(generate_simple_activation_code("a@b.com", "personal", 0, 0))
    /\ calls = [c \in 1 .. NumBurst |-> Idle]
    /\ ncalls = 0

BurstRequest(c) ==
    /\ calls[c].pc = "idle"
    /\ \E a \in activations :
         calls' = [calls EXCEPT ![c] =
                     [pc |-> "pending", activation_code |-> a.activation_code,
                      device_id |-> c]]
    /\ ncalls' = ncalls + 1
    /\ UNCHANGED <<serverVars, dbVars, granted, script, now, codecVars>>

NextBurst ==
    \/ \E c \in DOMAIN calls : BurstRequest(c)
    \/ \E c \in DOMAIN calls : ApiVerify(c)

SpecBurst == InitBurst /\ [][NextBurst]_vars

(***************************************************************************)
(* The sequential scenario on a freshly issued business license: device 1, *)
(* device 1 again, then one new device per request until the license has   *)
(* one device more than seats.                                             *)
(***************************************************************************)
ScriptLen == SimpleMaxDevices("business") + 2

\* the device of the k-th request of the scenario
ScriptDevice(k) == IF k = 1 THEN 1 ELSE k - 1

InitScenario ==
    /\ \E email \in Emails, r \in {0, 1} :
         IssuedInit(generate_simple_activation_code(email, "business", r, 0))
    /\ calls = [c \in {"t1"} |-> Idle]
    /\ ncalls = 0

ScriptRequest ==
    /\ calls["t1"].pc # "pending"
    /\ script < ScriptLen
    /\ \E a \in activations :
         calls' = [calls EXCEPT !["t1"] =
                     [pc |-> "pending", activation_code |-> a.activation_code,
                      device_id |-> ScriptDevice(script + 1)]]
    /\ script' = script + 1
    /\ ncalls' = ncalls + 1
    /\ UNCHANGED <<serverVars, dbVars, granted, now, codecVars>>

NextScenario ==
    \/ ScriptRequest
    \/ ApiVerify("t1")
    \/ Tick

SpecScenario == InitScenario /\ [][NextScenario]_vars

(***************************************************************************)
(* The codec: a code is handed out by ActivationGenerator.generate or by   *)
(* POST /api/manual-activate (activation_server.py 1118-1190), then codes  *)
(* are presented to ActivationGenerator.verify.  verify reads nothing but   *)
(* its argument, the cipher and the clock, so a behaviour follows one      *)
(* issuance and one call of verify.                                        *)
(***************************************************************************)
\* product names, as the words of product_name.lower()
ProductNames ==
    {<<"pdf", "fusion", "pro">>, <<"pdf", "fusion", "pro", "business">>}
PurchaseIds == {"", "sale-1"}
\* the (product_type, days_valid, max_devices) a caller of generate passes
GenerateArgs == {<<"personal", 365, 3>>, <<"business", 730, 10>>}
\* the characters a single-position change writes: A, B, "-", " ", "=", "!"
TamperChars == {65, 66, Dash, Space, Pad, 33}

\* 'word' in product_name_lower
Contains(product_name, word) == \E i \in 1 .. Len(product_name) : product_name[i] = word

\* the classification written inline in manual_activate
ManualProductType(product_name) ==
    IF Contains(product_name, "business") THEN "business"
    ELSE IF Contains(product_name, "enterprise") THEN "enterprise"
    ELSE IF Contains(product_name, "professional") THEN "professional"
    ELSE "personal"

InitCodec ==
    /\ activations = {}
    /\ activations_csv = <<>>
    /\ device_activations = {}
    /\ next_id = 1
    /\ calls = [c \in Callers |-> Idle]
    /\ ncalls = 0
    /\ granted = {}
    /\ script = 0
    /\ now \in 0 .. MaxTime
    /\ cipher \in {NoCipher} \cup {Fernet(k) : k \in EncryptionKeys}
    /\ issued = NoToken
    /\ checked = Unchecked
    /\ purchases = {}
    /\ webhook_count = 0
    /\ config = DefaultConfig

\* ActivationGenerator(cipher).generate(...)
Generate ==
    /\ issued = NoToken
    /\ cipher.enabled
    /\ \E email \in Emails, args \in GenerateArgs, purchase_id \in PurchaseIds :
         \E g \in {generate(cipher, email, args[1], args[2], args[3],
                              purchase_id, 0, now)} :
             issued' = [by |-> "generate", activation_code |-> g.activation_code,
                        data |-> g.data]
    /\ UNCHANGED <<serverVars, dbVars, calls, ncalls, granted, script, now, cipher, checked>>

\* POST /api/manual-activate with email, product_name and purchase_id
ManualActivate ==
    /\ issued = NoToken
    /\ \E email \in AdminEmails, product_name \in ProductNames,
          purchase_id \in PurchaseIds, db_ok \in BOOLEAN :
         \E g \in {generate_professional_activation_code(
                       cipher, email, ManualProductType(product_name), purchase_id,
                       product_name, 0, 0, now)} :
             /\ SaveRecord(email, g.activation_code, g.data, db_ok)
             /\ issued' = [by |-> "manual", activation_code |-> g.activation_code,
                            data |-> g.data]
    /\ UNCHANGED <<serverVars, device_activations, calls, ncalls, granted, script, now,
                   cipher, checked>>

\* verify(code) for the code that was handed out
Verify ==
    /\ issued # NoToken
    /\ checked = Unchecked
    /\ checked' = [of |-> "issued", activation_code |-> issued.activation_code,
                    result |-> verify(cipher, issued.activation_code, now)]
    /\ UNCHANGED <<serverVars, dbVars, calls, ncalls, granted, script, now, cipher, issued>>

\* verify(code) for the code that was handed out with one position changed
VerifyTampered ==
    /\ issued # NoToken
    /\ checked = Unchecked
    /\ \E pos \in 1 .. Len(issued.activation_code), ch \in TamperChars :
         /\ issued.activation_code[pos] # ch
         /\ LET code == [issued.activation_code EXCEPT ![pos] = ch]
            IN  checked' = [of |-> "tampered", activation_code |-> code,
                            result |-> verify(cipher, code, now)]
    /\ UNCHANGED <<serverVars, dbVars, calls, ncalls, granted, script, now, cipher, issued>>

\* verify(key) for a key stored in activations.activation_code
VerifyStored ==
    /\ checked = Unchecked
    /\ \E a \in activations :
         checked' = [of |-> "stored", activation_code |-> a.activation_code,
                     result |-> verify(cipher, a.activation_code, now)]
    /\ UNCHANGED <<serverVars, dbVars, calls, ncalls, granted, script, now, cipher, issued>>

NextCodec ==
    \/ Generate
    \/ ManualActivate
    \/ Verify
    \/ VerifyTampered
    \/ VerifyStored

SpecCodec == InitCodec /\ [][NextCodec]_vars

(***************************************************************************)
(* verify on authentic tokens: the holder of the key encrypts a payload    *)
(* and the complete encoding (no character cut off) is presented to        *)
(* ActivationGenerator.verify, at the time of encryption or later.         *)
(***************************************************************************)
\* days_valid of the payloads: 0 (valid on the day of issue only) and a year
AuthenticDays == {0, 365}

InitVerify ==
    /\ activations = {}
    /\ activations_csv = <<>>
    /\ device_activations = {}
    /\ next_id = 1
    /\ calls = [c \in Callers |-> Idle]
    /\ ncalls = 0
    /\ granted = {}
    /\ script = 0
    /\ now = 0
    /\ cipher \in {Fernet(k) : k \in EncryptionKeys}
    /\ issued = NoToken
    /\ checked = Unchecked
    /\ purchases = {}
    /\ webhook_count = 0
    /\ config = DefaultConfig

\* cipher.encrypt(json.dumps(activation_data)) of generate, encoded in full
EncryptGenerate ==
    /\ issued = NoToken
    /\ \E email \in Emails, args \in GenerateArgs, days \in AuthenticDays,
          purchase_id \in PurchaseIds :
         \E data \in {GenerateData(email, args[1], days, args[3], purchase_id, now)} :
             issued' = [by |-> "encrypt",
                        activation_code |-> EncodePayload(cipher, data, 0, now),
                        data |-> data]
    /\ UNCHANGED <<serverVars, dbVars, calls, ncalls, granted, script, now, cipher, checked>>

\* cipher.encrypt(json.dumps(activation_data)) of
\* generate_professional_activation_code, encoded in full
EncryptProfessional ==
    /\ issued = NoToken
    /\ \E email \in AdminEmails, product_name \in ProductNames,
          purchase_id \in PurchaseIds :
         \E data \in {ProfessionalData(email, ManualProductType(product_name),
                                        purchase_id, product_name, now)} :
             issued' = [by |-> "encrypt_professional",
                        activation_code |-> EncodePayload(cipher, data, 0, now),
                        data |-> data]
    /\ UNCHANGED <<serverVars, dbVars, calls, ncalls, granted, script, now, cipher, checked>>

\* no call of verify yet
NoResult == [ok |-> FALSE, message |-> "none", detail |-> "", data |-> <<>>]
\* the result of the call of verify before this one
Earlier == IF checked = Unchecked THEN NoResult ELSE checked.result
\* a behaviour holds at most two calls of verify
MayVerify == IF checked = Unchecked THEN TRUE ELSE checked.earlier = NoResult

\* the lengths the generators cut an encoding to: the 48 characters of the
\* professional format and the 53 that [:59] leaves of 8-character chunks
CutLengths == {ProfessionalChars, MaxCodeLen - MaxCodeLen \div (ChunkSize + 1)}

\* verify(code) of the complete encoding at the current time
VerifyAuthentic ==
    /\ issued # NoToken
    /\ MayVerify
    /\ checked' = [of |-> "authentic", activation_code |-> issued.activation_code,
                    at |-> now,
                    result |-> verify(cipher, issued.activation_code, now),
                    earlier |-> Earlier]
    /\ UNCHANGED <<serverVars, dbVars, calls, ncalls, granted, script, now, cipher, issued>>

\* verify(code) of the first characters of the encoding
VerifyCut ==
    /\ issued # NoToken
    /\ MayVerify
    /\ \E n \in CutLengths :
         \E code \in {Slice(issued.activation_code, 0, n)} :
             checked' = [of |-> "cut", activation_code |-> code,
                         at |-> now,
                         result |-> verify(cipher, code, now),
                         earlier |-> Earlier]
    /\ UNCHANGED <<serverVars, dbVars, calls, ncalls, granted, script, now, cipher, issued>>

\* decode(code) of the complete encoding or of its first characters, before
\* any call of verify
DecodePresented ==
    /\ issued # NoToken
    /\ checked = Unchecked
    /\ \E n \in CutLengths \cup {Len(issued.activation_code)} :
         \E code \in {Slice(issued.activation_code, 0, n)} :
             checked' = [of |-> "decode", activation_code |-> code,
                         at |-> now,
                         decoded |-> decode(cipher, code),
                         result |-> NoResult,
                         earlier |-> NoResult]
    /\ UNCHANGED <<serverVars, dbVars, calls, ncalls, granted, script, now, cipher, issued>>

NextVerify ==
    \/ EncryptGenerate
    \/ EncryptProfessional
    \/ VerifyAuthentic
    \/ VerifyCut
    \/ DecodePresented
    \/ Tick

SpecVerify == InitVerify /\ [][NextVerify]_vars

(***************************************************************************)
(* The issuing endpoints of the server with the cipher as                  *)
(* init_professional_components builds it from config.ENCRYPTION_KEY, and  *)
(* POST /api/verify on the code that was handed out.                       *)
(***************************************************************************)
\* config.ENCRYPTION_KEY: unset; a well-formed key (44 characters ending in
\* "=", 32 bytes decoded); 44 characters ending in "=" that are no base64 of
\* 32 bytes; a short string; a 32-character string (its base64 is a key)
ConfigKeys ==
    {[set |-> FALSE, len |-> 0, padded |-> FALSE, decoded |-> 0, secret |-> 0],
     [set |-> TRUE, len |-> 44, padded |-> TRUE, decoded |-> 32, secret |-> 77],
     [set |-> TRUE, len |-> 44, padded |-> TRUE, decoded |-> 31, secret |-> 78],
     [set |-> TRUE, len |-> 10, padded |-> FALSE, decoded |-> 7, secret |-> 79],
     [set |-> TRUE, len |-> 32, padded |-> FALSE, decoded |-> 24, secret |-> 80]}

\* the cipher of init_professional_components: None without a key, Fernet(key)
\* for a well-formed one, Fernet(base64(key)) for any other string; Fernet
\* raises unless the key decodes to 32 bytes, and the handler returns None
init_professional_components(encryption_key) ==
    IF ~encryption_key.set THEN NoCipher
    ELSE IF encryption_key.len # 44 \/ ~encryption_key.padded
         THEN IF encryption_key.len = 32
              THEN Fernet(encryption_key.secret) ELSE NoCipher
         ELSE IF encryption_key.decoded = 32
              THEN Fernet(encryption_key.secret) ELSE NoCipher

\* data.get('product_type', 'personal') of POST /api/generate
RequestTypes == {"personal", "professional", "business", "enterprise", "trial"}
\* product names of a sale, as the words of product_name.lower()
SaleProductNames ==
    {<<"pdf", "fusion", "pro">>,
     <<"pdf", "fusion", "pro", "professional">>,
     <<"pdf", "fusion", "pro", "business">>,
     <<"pdf", "fusion", "pro", "enterprise">>}

\* the classification written inline in webhook_gumroad
WebhookProductType(product_name) ==
    IF Contains(product_name, "business") THEN "business"
    ELSE IF Contains(product_name, "enterprise") THEN "enterprise"
    ELSE IF Contains(product_name, "professional") THEN "professional"
    ELSE "personal"

InitIssue ==
    /\ activations = {}
    /\ activations_csv = <<>>
    /\ device_activations = {}
    /\ next_id = 1
    /\ calls = [c \in Callers |-> Idle]
    /\ ncalls = 0
    /\ granted = {}
    /\ script = 0
    /\ now = 0
    /\ cipher \in {init_professional_components(k) : k \in ConfigKeys}
    /\ issued = NoToken
    /\ checked = Unchecked
    /\ purchases = {}
    /\ webhook_count = 0
    /\ config = DefaultConfig

\* POST /api/generate with an email and any product_type
IssueApiGenerate ==
    /\ issued = NoToken
    /\ \E email \in AdminEmails, product_type \in RequestTypes, db_ok \in BOOLEAN :
         \E data \in {generate_simple_activation_code(email, product_type, 0, now)} :
             /\ SaveRecord(email, data.activation_code, data, db_ok)
             /\ issued' = [by |-> "api", activation_code |-> data.activation_code,
                            data |-> data]
    /\ UNCHANGED <<serverVars, device_activations, calls, ncalls, granted, script, now,
                   cipher, checked>>

\* POST /api/webhook/gumroad with email, product_name and sale_id
IssueWebhook ==
    /\ issued = NoToken
    /\ \E email \in AdminEmails, product_name \in SaleProductNames, db_ok \in BOOLEAN :
         \E g \in {generate_professional_activation_code(
                       cipher, email, WebhookProductType(product_name), "sale-1",
                       product_name, 0, 0, now)} :
             /\ SaveRecord(email, g.activation_code, g.data, db_ok)
             /\ issued' = [by |-> "webhook", activation_code |-> g.activation_code,
                            data |-> g.data]
    /\ UNCHANGED <<serverVars, device_activations, calls, ncalls, granted, script, now,
                   cipher, checked>>

\* POST /api/manual-activate with email, product_name and purchase_id
IssueManualActivate ==
    /\ issued = NoToken
    /\ \E email \in AdminEmails, product_name \in SaleProductNames, db_ok \in BOOLEAN :
         \E g \in {generate_professional_activation_code(
                       cipher, email, ManualProductType(product_name), "sale-1",
                       product_name, 0, 0, now)} :
             /\ SaveRecord(email, g.activation_code, g.data, db_ok)
             /\ issued' = [by |-> "manual", activation_code |-> g.activation_code,
                            data |-> g.data]
    /\ UNCHANGED <<serverVars, device_activations, calls, ncalls, granted, script, now,
                   cipher, checked>>

\* POST /api/verify with the code that was handed out
VerifyIssued ==
    /\ issued # NoToken
    /\ checked = Unchecked
    /\ \E device_id \in Devices :
         checked' = [of |-> "api_verify", activation_code |-> issued.activation_code,
                     at |-> now,
                     result |-> api_verify(issued.activation_code, device_id, now)]
    /\ UNCHANGED <<serverVars, dbVars, calls, ncalls, granted, script, now, cipher, issued>>

NextIssue ==
    \/ IssueApiGenerate
    \/ IssueWebhook
    \/ IssueManualActivate
    \/ VerifyIssued
    \/ Tick

SpecIssue == InitIssue /\ [][NextIssue]_vars

(***************************************************************************)
(* POST /api/verify step by step: the threaded server runs one handler     *)
(* per request, a handler can be inside api_verify while another one is,   *)
(* and a handler can end without returning (an exception answered with     *)
(* 500, a client that went away, a worker that was stopped).               *)
(***************************************************************************)
MaxHandlerCalls == 4
HandlerDevices == {1, 2}

\* two licenses issued by POST /api/generate
InitHandler ==
    /\ activations =
         The({ save_to_database(
                   save_to_database({}, 1, p.email, p.activation_code, p),
                   2, b.email, b.activation_code, b)
               : p \in {generate_simple_activation_code("a@b.com", "personal", 0, 0)},
                 b \in {generate_simple_activation_code("a@b.com", "business", 1, 0)} })
    /\ activations_csv = <<>>
    /\ device_activations = {}
    /\ next_id = 3
    /\ calls = [c \in Callers |-> Idle]
    /\ ncalls = 0
    /\ granted = {}
    /\ script = 0
    /\ now = 0
    /\ cipher \in {Fernet(k) : k \in EncryptionKeys}
    /\ issued = NoToken
    /\ checked = Unchecked
    /\ purchases = {}
    /\ webhook_count = 0
    /\ config = DefaultConfig

\* a caller sends {"activation_code": ..., "device_id": ...} for a license;
\* `after` will hold the callers whose handler for the same license was
\* inside api_verify when this one entered (c's earlier call is forgotten)
HandlerRequest(c) ==
    /\ calls[c].pc \notin {"pending", "inside"}
    /\ ncalls < MaxHandlerCalls
    /\ \E a \in activations, dev \in HandlerDevices :
         calls' = [o \in Callers |->
                     IF o = c
                     THEN [pc |-> "pending", activation_code |-> a.activation_code,
                           device_id |-> dev, after |-> {}]
                     ELSE IF calls[o].pc = "idle" THEN calls[o]
                     ELSE [calls[o] EXCEPT !.after = @ \ {c}]]
    /\ ncalls' = ncalls + 1
    /\ UNCHANGED <<serverVars, dbVars, granted, script, now, codecVars>>

\* a handler that enters only while no other call of the same license is
\* inside or has ended inside without returning
MayEnterUnderLock(c) ==
    \A o \in Callers \ {c} :
        calls[o].pc \in {"inside", "aborted"}
          => calls[o].activation_code # calls[c].activation_code

\* a handler under a lock that no exit path releases: it enters only if no
\* other call of the same license has entered before
MayEnterNeverReleased(c) ==
    \A o \in Callers \ {c} :
        calls[o].pc \in {"inside", "done", "aborted"}
          => calls[o].activation_code # calls[c].activation_code

\* what api_verify waits for before it reads the request: nothing
MayEnter(c) == TRUE

\* the handler of caller c's request starts: data = request.json
HandlerEnter(c) ==
    /\ calls[c].pc = "pending"
    /\ MayEnter(c)
    /\ calls' = [calls EXCEPT ![c].pc = "inside",
                              ![c].after =
                                  {o \in Callers \ {c} :
                                      /\ calls[o].pc = "inside"
                                      /\ calls[o].activation_code
                                           = calls[c].activation_code}]
    /\ UNCHANGED <<serverVars, dbVars, ncalls, granted, script, now, codecVars>>

\* the handler returns its answer
HandlerReturn(c) ==
    /\ calls[c].pc = "inside"
    /\ LET code == calls[c].activation_code
           dev == calls[c].device_id
           resp == api_verify(code, dev, now)
       IN  /\ calls' = [calls EXCEPT ![c] =
                          [pc |-> "done", activation_code |-> code,
                           device_id |-> dev, after |-> calls[c].after,
                           resp |-> resp]]
           /\ device_activations' =
                 VerifyBindings(device_activations, activations, code, dev, now)
           /\ activations' = VerifyLicenses(activations, code, dev, now)
           /\ granted' = IF resp.valid THEN granted \cup {<<code, dev>>} ELSE granted
    /\ UNCHANGED <<serverVars, activations_csv, next_id, ncalls, script, now, codecVars>>

\* the handler ends without returning, after any of its writes
HandlerAbort(c) ==
    /\ calls[c].pc = "inside"
    /\ LET code == calls[c].activation_code
           dev == calls[c].device_id
       IN  /\ calls' = [calls EXCEPT ![c].pc = "aborted"]
           /\ device_activations' \in
                 {device_activations,
                  VerifyBindings(device_activations, activations, code, dev, now)}
           /\ activations' \in
                 {activations, VerifyLicenses(activations, code, dev, now)}
    /\ UNCHANGED <<serverVars, activations_csv, next_id, ncalls, granted, script, now, codecVars>>

NextHandler ==
    \/ \E c \in Callers : HandlerRequest(c)
    \/ \E c \in Callers : HandlerEnter(c)
    \/ \E c \in Callers : HandlerReturn(c)
    \/ \E c \in Callers : HandlerAbort(c)

SpecHandler == InitHandler /\ [][NextHandler]_vars

\* every request gets its own thread, which runs until the handler ends
FairHandler ==
    \A c \in Callers :
        /\ WF_vars(HandlerEnter(c))
        /\ WF_vars(HandlerReturn(c) \/ HandlerAbort(c))

SpecHandlerLive == InitHandler /\ [][NextHandler]_vars /\ FairHandler

(***************************************************************************)
(* The display form of an encoded ciphertext, as the two generators make   *)
(* it (code_generator.py 49-53, activation_server.py 250-258).             *)
(***************************************************************************)
\* encoded ciphertexts have 4 * k characters, k up to MaxQuads
MaxQuads == 40
TextSeeds == 0 .. 3

\* a text of the base64 alphabet of the given length
EncodedText(len, seed) ==
    Bytes([i \in 1 .. len |-> B64Char((i * (2 * seed + 1) + seed) % 64)])

InitFormat ==
    /\ activations = {}
    /\ activations_csv = <<>>
    /\ device_activations = {}
    /\ next_id = 1
    /\ calls = [c \in Callers |-> Idle]
    /\ ncalls = 0
    /\ granted = {}
    /\ script = 0
    /\ now = 0
    /\ cipher \in {Fernet(k) : k \in EncryptionKeys}
    /\ issued = NoToken
    /\ checked = Unchecked
    /\ purchases = {}
    /\ webhook_count = 0
    /\ config = DefaultConfig

\* both generators format the same encoded ciphertext
FormatCode ==
    /\ checked = Unchecked
    /\ \E quads \in 0 .. MaxQuads, seed \in TextSeeds :
         \E activation_code \in {EncodedText(4 * quads, seed)} :
             checked' = [of |-> "format",
                         activation_code |-> activation_code,
                         generate |-> GenerateFormat(activation_code),
                         professional |-> ProfessionalFormat(activation_code)]
    /\ UNCHANGED <<serverVars, dbVars, calls, ncalls, granted, script, now, cipher, issued>>

NextFormat == FormatCode

SpecFormat == InitFormat /\ [][NextFormat]_vars

(***************************************************************************)
(* save_activation_record called with records of the simple generator,     *)
(* with and without DATABASE_URL, the database and the file failing or     *)
(* not. checked keeps the last call: its arguments, what failed, the value *)
(* returned and the length of the file before the call.                    *)
(***************************************************************************)
MaxSaves == 2
\* the values os.urandom / secrets.token_hex return in a call
RandomDraws == {0, 1}

InitStorage ==
    /\ activations = {}
    /\ activations_csv = <<>>
    /\ device_activations = {}
    /\ next_id = 1
    /\ calls = [c \in Callers |-> Idle]
    /\ ncalls = 0
    /\ granted = {}
    /\ script = 0
    /\ now = 0
    /\ cipher = NoCipher
    /\ issued = NoToken
    /\ checked = Unchecked
    /\ purchases = {}
    /\ webhook_count = 0
    /\ config \in {[ADMIN_API_KEY |-> "secret", DATABASE_URL |-> url] : url \in BOOLEAN}

StoreRecord ==
    /\ ncalls < MaxSaves
    /\ \E email \in AdminEmails, product_type \in AdminTypes, r \in RandomDraws,
          db \in DbOutcomes, file_ok \in BOOLEAN :
         \E data \in {generate_simple_activation_code(email, product_type, r, now)} :
             \E s \in {save_activation_record(
                           [db |-> activations, file |-> activations_csv,
                            next_id |-> next_id, result |-> FALSE],
                           email, data.activation_code, data, now,
                           config.DATABASE_URL, db, file_ok)} :
                 /\ activations' = s.db
                 /\ activations_csv' = s.file
                 /\ next_id' = s.next_id
                 /\ checked' = [of |-> "save", email |-> email,
                                activation_code |-> data.activation_code,
                                db |-> IF config.DATABASE_URL THEN db ELSE "unused",
                                file_ok |-> file_ok,
                                result |-> s.result,
                                lines_before |-> Len(activations_csv)]
    /\ ncalls' = ncalls + 1
    /\ UNCHANGED <<serverVars, device_activations, calls, granted, script, now,
                   cipher, issued>>

NextStorage ==
    \/ StoreRecord
    \/ Tick

SpecStorage == InitStorage /\ [][NextStorage]_vars

(***************************************************************************)
(* POST /api/generate behind require_api_key (activation_server.py         *)
(* 191-200, 1034-1065): any X-API-Key header, ADMIN_API_KEY configured or  *)
(* left at its default ''. checked keeps the last request and its status.  *)
(***************************************************************************)
MaxAdminCalls == 3
\* request.headers.get('X-API-Key'): NULL when the header is absent
ApiKeyHeaders == {NULL, "", "secret", "wrong"}
\* os.getenv('ADMIN_API_KEY', '')
AdminKeys == {"", "secret"}

\* a decorator that only compares the header with the configured key
require_api_key_comparing(api_key, admin_api_key) ==
    api_key = admin_api_key

\* require_api_key: TRUE when the wrapped handler is called, FALSE when the
\* decorator answers 401 (not api_key or api_key != config.ADMIN_API_KEY)
require_api_key(api_key, admin_api_key) ==
    ~(api_key = NULL \/ api_key = "" \/ api_key # admin_api_key)

InitAdmin ==
    /\ activations = {}
    /\ activations_csv = <<>>
    /\ device_activations = {}
    /\ next_id = 1
    /\ calls = [c \in Callers |-> Idle]
    /\ ncalls = 0
    /\ granted = {}
    /\ script = 0
    /\ now = 0
    /\ cipher = NoCipher
    /\ issued = NoToken
    /\ checked = Unchecked
    /\ purchases = {}
    /\ webhook_count = 0
    /\ config \in {[ADMIN_API_KEY |-> k, DATABASE_URL |-> TRUE] : k \in AdminKeys}

\* one request: 401 from the decorator, 400 without an email, else a code is
\* generated and saved
ApiGenerateRequest ==
    /\ ncalls < MaxAdminCalls
    /\ \E api_key \in ApiKeyHeaders, email \in AdminEmails \cup {NULL} :
         IF ~require_api_key(api_key, config.ADMIN_API_KEY)
         THEN /\ checked' = [of |-> "api_generate", api_key |-> api_key,
                             email |-> email, status |-> 401]
              /\ UNCHANGED dbVars
         ELSE IF email = NULL
         THEN /\ checked' = [of |-> "api_generate", api_key |-> api_key,
                             email |-> email, status |-> 400]
              /\ UNCHANGED dbVars
         ELSE \E product_type \in AdminTypes, r \in RandomDraws, db_ok \in BOOLEAN :
                \E data \in {generate_simple_activation_code(email, product_type,
                                                              r, now)} :
                    /\ SaveRecord(email, data.activation_code, data, db_ok)
                    /\ checked' = [of |-> "api_generate", api_key |-> api_key,
                                   email |-> email, status |-> 200]
    /\ ncalls' = ncalls + 1
    /\ UNCHANGED <<serverVars, device_activations, calls, granted, script, now,
                   cipher, issued>>

NextAdmin ==
    \/ ApiGenerateRequest
    \/ Tick

SpecAdmin == InitAdmin /\ [][NextAdmin]_vars

(***************************************************************************)
(* The three classifications of a product name: GumroadWebhook             *)
(* .parse_product_type (utils/gumroad_webhook.py 33-53) and the ones       *)
(* written inline in webhook_gumroad and manual_activate. A name is the    *)
(* sequence of the words of product_name.lower().                          *)
(***************************************************************************)
MaxWords == 3
NameWords == {"pdf", "personal", "professional", "business", "enterprise", "99", "299"}
ClassifiedNames == UNION {[1 .. n -> NameWords] : n \in 0 .. MaxWords}

\* word in product_name_lower, a substring test: '99' is also found in '299'
OccursIn(word, product_name) ==
    \E i \in 1 .. Len(product_name) :
        \/ product_name[i] = word
        \/ word = "99" /\ product_name[i] = "299"

parse_product_type(product_name) ==
    IF OccursIn("enterprise", product_name) THEN "enterprise"
    ELSE IF OccursIn("business", product_name) THEN "business"
    ELSE IF OccursIn("professional", product_name) THEN "professional"
    ELSE IF OccursIn("personal", product_name) THEN "personal"
    ELSE IF OccursIn("99", product_name) \/ OccursIn("business", product_name)
    THEN "business"
    ELSE IF OccursIn("299", product_name) \/ OccursIn("enterprise", product_name)
    THEN "enterprise"
    ELSE "personal"

InitClassify ==
    /\ activations = {}
    /\ activations_csv = <<>>
    /\ device_activations = {}
    /\ next_id = 1
    /\ calls = [c \in Callers |-> Idle]
    /\ ncalls = 0
    /\ granted = {}
    /\ script = 0
    /\ now = 0
    /\ cipher = NoCipher
    /\ issued = NoToken
    /\ checked = Unchecked
    /\ purchases = {}
    /\ webhook_count = 0
    /\ config = DefaultConfig

\* a product name is classified by each of the three
ClassifyName ==
    /\ checked = Unchecked
    /\ \E product_name \in ClassifiedNames :
         checked' = [of |-> "classify",
                     product_name |-> product_name,
                     parse_product_type |-> parse_product_type(product_name),
                     webhook_gumroad |-> WebhookProductType(product_name),
                     manual_activate |-> ManualProductType(product_name)]
    /\ UNCHANGED <<serverVars, dbVars, calls, ncalls, granted, script, now, cipher,
                   issued>>

NextClassify == ClassifyName

SpecClassify == InitClassify /\ [][NextClassify]_vars

(***************************************************************************)
(* POST /api/webhook/gumroad step by step (activation_server.py 691-862):  *)
(* the handler counts the request (last_webhook_time, webhook_count += 1)  *)
(* and then issues, records the purchase, saves and mails the code.        *)
(* Gumroad delivers a sale again when it likes; deliveries run in threads. *)
(***************************************************************************)
MaxDeliveries == 3
SaleIds == {"sale-1", "sale-2"}

InitWebhook ==
    /\ activations = {}
    /\ activations_csv = <<>>
    /\ device_activations = {}
    /\ next_id = 1
    /\ calls = [c \in Callers |-> Idle]
    /\ ncalls = 0
    /\ granted = {}
    /\ script = 0
    /\ now = 0
    /\ cipher \in {Fernet(k) : k \in EncryptionKeys}
    /\ issued = NoToken
    /\ checked = Unchecked
    /\ purchases = {}
    /\ webhook_count = 0
    /\ config \in {[ADMIN_API_KEY |-> "secret", DATABASE_URL |-> url] : url \in BOOLEAN}

\* Gumroad posts a sale (a first delivery or a repeated one)
WebhookReceive(c) ==
    /\ calls[c].pc \in {"idle", "done"}
    /\ ncalls < MaxDeliveries
    /\ \E sale_id \in SaleIds :
         calls' = [calls EXCEPT ![c] =
                     [pc |-> "received", sale_id |-> sale_id,
                      product_name |-> <<"pdf", "fusion", "pro">>,
                      email |-> "a@b.com", count |-> 0]]
    /\ ncalls' = ncalls + 1
    /\ UNCHANGED <<dbVars, granted, script, now, codecVars, purchases,
                   webhook_count, config>>

\* webhook_count += 1, first half: the thread loads the global
WebhookLoadCount(c) ==
    /\ calls[c].pc = "received"
    /\ calls' = [calls EXCEPT ![c].pc = "loaded", ![c].count = webhook_count]
    /\ UNCHANGED <<dbVars, ncalls, granted, script, now, codecVars, serverVars>>

\* webhook_count += 1, second half: the thread stores the sum
WebhookStoreCount(c) ==
    /\ calls[c].pc = "loaded"
    /\ webhook_count' = calls[c].count + 1
    /\ calls' = [calls EXCEPT ![c].pc = "counted"]
    /\ UNCHANGED <<dbVars, ncalls, granted, script, now, codecVars, purchases, config>>

\* INSERT INTO purchases ... ON CONFLICT (purchase_id) DO UPDATE SET
\* processed = TRUE; nothing without DATABASE_URL or when the database fails
SavePurchase(rows, purchase_id, email, product_name, db_ok) ==
    IF ~config.DATABASE_URL \/ ~db_ok THEN rows
    ELSE {r \in rows : r.purchase_id # purchase_id}
           \cup {[purchase_id |-> purchase_id, email |-> email,
                  product_name |-> product_name, processed |-> TRUE]}

\* the rest of the handler: the code is generated, the purchase recorded,
\* the activation record saved; db_ok: the database answers this request
WebhookIssue(c) ==
    /\ calls[c].pc = "counted"
    /\ \E draw \in RandomDraws :
         \E g \in {generate_professional_activation_code(
                       cipher, calls[c].email,
                       WebhookProductType(calls[c].product_name), calls[c].sale_id,
                       calls[c].product_name, draw, draw, now)} :
             \E db_ok \in BOOLEAN :
                 /\ purchases' = SavePurchase(purchases, calls[c].sale_id,
                                              calls[c].email, calls[c].product_name,
                                              db_ok)
                 /\ SaveRecord(calls[c].email, g.activation_code, g.data,
                               config.DATABASE_URL /\ db_ok)
                 /\ calls' = [calls EXCEPT ![c].pc = "done"]
    /\ UNCHANGED <<device_activations, ncalls, granted, script, now, codecVars,
                   webhook_count, config>>

NextWebhook ==
    \/ \E c \in Callers : WebhookReceive(c)
    \/ \E c \in Callers : WebhookLoadCount(c)
    \/ \E c \in Callers : WebhookStoreCount(c)
    \/ \E c \in Callers : WebhookIssue(c)

SpecWebhook == InitWebhook /\ [][NextWebhook]_vars

(***************************************************************************)
(* The outcome of a bind, read off the answer of api_verify.  The handler  *)
(* has one success answer ("valid": true) and the 400 answer; it has no    *)
(* answer for a seat limit or an unknown license.                          *)
(***************************************************************************)
IsSuccess(resp) == resp.status = 200 /\ resp.valid

LicenseOf(code) == {a \in activations : a.activation_code = code}

GrantedDevices(a) == {d \in Devices : <<a.activation_code, d>> \in granted}

C3_RebindTouchesRow ==
    [][\A c \in Callers :
          ( /\ calls[c].pc = "pending"
            /\ calls'[c].pc = "done"
            /\ <<calls[c].activation_code, calls[c].device_id>> \in granted )
          => /\ IsSuccess(calls'[c].resp)
             /\ Cardinality(device_activations') = Cardinality(device_activations)
             /\ \A a \in LicenseOf(calls[c].activation_code) :
                  \E b \in ActiveBindings(device_activations', a.id) :
                      /\ b.device_id = calls[c].device_id
                      /\ b.last_used = now
      ]_vars

\* C4 as claimed: a license that has had a successful bind is marked used,
\* with used_at set and used_by_device one of the devices that were bound,
\* and a license once marked keeps its marker.
C4_FirstUseMarker ==
    \A a \in activations :
        GrantedDevices(a) # {}
          => /\ a.is_used = TRUE
             /\ a.used_at # NULL
             /\ a.used_by_device \in GrantedDevices(a)

C7_UnknownCodeRejected ==
    \A c \in Callers :
        ( /\ calls[c].pc = "done"
          /\ calls[c].activation_code # <<>>
          /\ calls[c].activation_code \notin KnownCodes )
          => ~IsSuccess(calls[c].resp)

\* C2 as claimed: when the ten concurrent requests for ten distinct devices
\* of a 3-seat license have all been answered, exactly 3 were answered with
\* success, the other 7 were refused, and the license has 3 active bindings.
C2_BurstOutcome ==
    (\A c \in DOMAIN calls : calls[c].pc = "done")
      => \A a \in activations :
           /\ Cardinality({c \in DOMAIN calls : IsSuccess(calls[c].resp)})
                = a.max_devices
           /\ Cardinality({c \in DOMAIN calls : ~IsSuccess(calls[c].resp)})
                = NumBurst - a.max_devices
           /\ Cardinality(ActiveBindings(device_activations, a.id)) = a.max_devices

\* the number of active bindings the scenario expects after its k-th answer
ScriptCount(k) ==
    IF k = 1 THEN 1
    ELSE IF k < ScriptLen THEN k - 1
    ELSE SimpleMaxDevices("business")

\* C6 as claimed: in the sequential scenario every request but the last is
\* answered with success, the last one (a device beyond the seat limit) is
\* refused, and after the k-th answer the license has ScriptCount(k) active
\* bindings (1, 1, 2, ..., 10, 10).
C6_Scenario ==
    (calls["t1"].pc = "done" /\ script >= 1)
      => \A a \in activations :
           /\ IsSuccess(calls["t1"].resp) <=> script < ScriptLen
           /\ Cardinality(ActiveBindings(device_activations, a.id))
                = ScriptCount(script)

(***************************************************************************)
(* The codec claims, read off the last call of verify (checked) and the    *)
(* code that was handed out (issued).                                      *)
(***************************************************************************)
\* the attributes verify returned are the ones the code was issued for
Recovers(d, e) ==
    /\ d.email = e.email
    /\ d.product_type = e.product_type
    /\ d.max_devices = e.max_devices
    /\ d.purchase_id = e.purchase_id
    /\ d.valid_until = e.valid_until

\* C8 as claimed: the code handed out by generate (or by the professional
\* generator of manual-activate, which encodes the same way) is accepted by
\* verify, and verify returns the email, product type, max_devices,
\* purchase_id and valid_until that were encoded.
C8_RoundTrip ==
    (checked.of = "issued" /\ cipher.enabled)
      => /\ checked.result.ok
         /\ Recovers(checked.result.data, issued.data)

\* C9 as claimed: the key stored in activations.activation_code by a server
\* with a cipher is the full encoded ciphertext, so every stored key,
\* presented to verify, decodes to the attributes of the license it is
\* stored with.
C9_StoredKeyDecodes ==
    (checked.of = "stored" /\ cipher.enabled)
      => /\ checked.result.ok
         /\ \A a \in activations :
              a.activation_code = checked.activation_code
                => Recovers(checked.result.data, a.metadata)

C11_ExpiredCarriesLicense ==
    (checked.of = "authentic" /\ issued.by = "encrypt")
      => IF checked.at > issued.data.valid_until
         THEN /\ ~checked.result.ok
              /\ checked.result.message = "expired"
              /\ checked.result.data # <<>>
              /\ Recovers(checked.result.data, issued.data)
         ELSE /\ checked.result.ok
              /\ Recovers(checked.result.data, issued.data)

(***************************************************************************)
(* The issuance claims.                                                    *)
(***************************************************************************)
\* the table of the claim: product type -> <<max_devices, days_valid>>
TableTypes == {"personal", "professional", "business", "enterprise"}
IssuanceTable(product_type) ==
    CASE product_type = "personal" -> <<3, 365>>
      [] product_type = "professional" -> <<5, 365>>
      [] product_type = "business" -> <<10, 730>>
      [] product_type = "enterprise" -> <<99, 1095>>

\* the record follows the table
FollowsTable(d) ==
    d.product_type \in TableTypes
      => /\ d.max_devices = IssuanceTable(d.product_type)[1]
         /\ d.days_valid = IssuanceTable(d.product_type)[2]
         /\ d.valid_until = d.generated_at + d.days_valid

\* C12: whatever endpoint issued a licence (POST /api/generate, the Gumroad
\* webhook, POST /api/manual-activate, with or without a cipher), its
\* max_devices and days_valid are those of the table for its product type,
\* in the data handed back and in every stored row.
C12_IssuanceTable ==
    /\ issued # NoToken => FollowsTable(issued.data)
    /\ \A a \in activations :
         a.product_type \in TableTypes
           => /\ a.max_devices = IssuanceTable(a.product_type)[1]
              /\ a.days_valid = IssuanceTable(a.product_type)[2]
    /\ \A i \in 1 .. Len(activations_csv) :
         activations_csv[i].product_type \in TableTypes
           => activations_csv[i].max_devices
                = IssuanceTable(activations_csv[i].product_type)[1]

\* a professional licence issued by the encrypting generator
C12_Witness ==
    /\ issued # NoToken
    /\ issued.by = "webhook"
    /\ cipher.enabled
    /\ issued.data.product_type = "professional"
    /\ issued.data.max_devices = 5
    /\ issued.data.days_valid = 365
    /\ \E a \in activations : a.product_type = "professional" /\ a.max_devices = 5

\* C13 as claimed: a successful POST /api/verify of an issued licence reports
\* the product type, the seat count and the expiry fixed at its issuance.
C13_VerifyReportsIssued ==
    (checked.of = "api_verify" /\ checked.result.valid)
      => /\ checked.result.product_type = issued.data.product_type
         /\ checked.result.max_devices = issued.data.max_devices
         /\ checked.result.valid_until = issued.data.valid_until

\* C14 as claimed: without a usable ENCRYPTION_KEY the endpoints that issue
\* through the encrypting generator (the Gumroad webhook and POST
\* /api/manual-activate) hand out no token.
C14_FailClosed ==
    issued.by \in {"webhook", "manual"} => cipher.enabled

\* a rejection for a cryptographic, parse or checksum reason
IsInvalidRejection(r) == ~r.ok /\ r.message \notin {"expired", "none"}

\* C15 as claimed: any two codes verify rejects for a cryptographic, parse or
\* checksum reason get the same message.
C15_GenericRejection ==
    (/\ checked # Unchecked
     /\ IsInvalidRejection(checked.result)
     /\ IsInvalidRejection(checked.earlier))
      => /\ checked.result.message = checked.earlier.message
         /\ checked.result.detail = checked.earlier.detail

(***************************************************************************)
(* The claims on binding at the seat limit.                                *)
(***************************************************************************)
\* the license of the code is known and has answered at least max_devices
\* devices with success
AtSeatLimit(code) ==
    \E a \in LicenseOf(code) : Cardinality(GrantedDevices(a)) >= a.max_devices

C17_NewDeviceAtLimit ==
    [][\A c \in Callers :
          ( /\ calls[c].pc = "pending"
            /\ calls'[c].pc = "done"
            /\ <<calls[c].activation_code, calls[c].device_id>> \notin granted
            /\ AtSeatLimit(calls[c].activation_code) )
          => /\ ~IsSuccess(calls'[c].resp)
             /\ device_activations' = device_activations
             /\ activations' = activations
      ]_vars

C20_SerializedPerLicense ==
    \A c \in Callers, o \in Callers :
        (c # o /\ calls[c].pc = "inside" /\ calls[o].pc = "inside")
          => calls[c].activation_code # calls[o].activation_code

(***************************************************************************)
(* The claims on the order of concurrent calls.                            *)
(***************************************************************************)
\* o's handler was inside api_verify for the same license when c's entered,
\* and both have returned
ReturnedAfter(c, o) ==
    /\ c # o
    /\ calls[c].pc = "done" /\ calls[o].pc = "done"
    /\ o \in calls[c].after

EmbedsFullDigest(d) ==
    d.checksum = ProfessionalChecksum(d.email, d.product_type, d.days_valid,
                                      d.purchase_id)

\* C23 as claimed: verify of an authentic, unmodified token answers
\* "checksum failed" exactly when the embedded checksum differs from the
\* digest over (email, product_type, days_valid, purchase_id); a token of an
\* issuance path is not refused for its checksum.
C23_ChecksumExact ==
    checked.of = "authentic"
      => /\ (checked.result.message = "checksum failed")
              <=> ~EmbedsFullDigest(issued.data)
         /\ checked.result.message # "checksum failed"

\* every ninth character of the display form is the delimiter
Delimited(form) ==
    \A i \in 1 .. Len(form) : (i % (ChunkSize + 1) = 0) => form[i] = Dash

\* the display form without the characters at the delimiter positions
Undelimited(form) ==
    [k \in 1 .. (Len(form) - Len(form) \div (ChunkSize + 1)) |->
        form[k + (k - 1) \div ChunkSize]]

IsPrefix(s, t) == Len(s) <= Len(t) /\ \A i \in 1 .. Len(s) : s[i] = t[i]

\* the claimed shape of one display form of the encoded ciphertext
DisplayForm(form, activation_code) ==
    /\ Len(form) <= MaxCodeLen
    /\ Delimited(form)
    /\ IsPrefix(Undelimited(form), activation_code)

\* C24 as claimed: the display forms of both generators are at most 59
\* characters, delimited every 8 characters, a prefix of the encoded
\* ciphertext once the delimiters are removed, and equal to each other.
C24_DisplayForm ==
    checked.of = "format"
      => /\ DisplayForm(checked.generate, checked.activation_code)
         /\ DisplayForm(checked.professional, checked.activation_code)
         /\ checked.generate = checked.professional

(***************************************************************************)
(* The claim on typed errors.                                              *)
(***************************************************************************)
\* C25 as claimed: no call of decode turns a failure into the empty result,
\* and a call of verify that fails names its reason.
C25_NoSwallowedFailure ==
    /\ checked.of = "decode" => checked.decoded # <<>>
    /\ checked.of \in {"authentic", "cut"}
         => (~checked.result.ok
               => checked.result.message \in {"checksum failed", "expired", "invalid"})

(***************************************************************************)
(* The claims on the Gumroad webhook.                                      *)
(***************************************************************************)
\* the activation rows that carry the sale as their purchase_id
RecordsOfSale(sale_id) ==
    {a \in activations :
        /\ "purchase_id" \in DOMAIN a.metadata
        /\ a.metadata.purchase_id = sale_id}

\* C26 as claimed: whatever the number of deliveries of a sale, there is at
\* most one purchases row and at most one activation record for it.
C26_OneCodePerSale ==
    \A sale_id \in SaleIds :
        /\ Cardinality({r \in purchases : r.purchase_id = sale_id}) <= 1
        /\ Cardinality(RecordsOfSale(sale_id)) <= 1

\* C27 as claimed: when no webhook request is being handled, webhook_count
\* is the number of requests received.
C27_CountsEveryRequest ==
    (\A c \in Callers : calls[c].pc \in {"idle", "done"})
      => webhook_count = ncalls

\* the record of the last save_activation_record call is in the database
\* or in the file
IsStored(k) ==
    \/ \E a \in activations :
         a.activation_code = k.activation_code /\ a.email = k.email
    \/ \E i \in 1 .. Len(activations_csv) :
         /\ activations_csv[i].activation_code = k.activation_code
         /\ activations_csv[i].email = k.email

\* the call appended exactly one line to the file: its own record
WroteFileOnce(k) ==
    /\ Len(activations_csv) = k.lines_before + 1
    /\ activations_csv[Len(activations_csv)].activation_code = k.activation_code
    /\ activations_csv[Len(activations_csv)].email = k.email

C28_WitnessBothFail ==
    /\ checked.of = "save"
    /\ checked.db \in {"raised", "raised_after_commit"}
    /\ ~checked.file_ok
    /\ ~checked.result

\* the X-API-Key of the last request is non-empty and is the configured key
KeyAccepted(k) ==
    /\ k.api_key # NULL
    /\ k.api_key # ""
    /\ k.api_key = config.ADMIN_API_KEY

\* C29: in every request to a handler behind require_api_key, the handler
\* runs (a status other than 401) exactly when the X-API-Key header is
\* non-empty and equal to ADMIN_API_KEY; a request answered 401 changes
\* neither the database nor the file, also when ADMIN_API_KEY is ''.
C29_KeyRequired ==
    [][ncalls' = ncalls + 1 =>
          /\ checked'.status # 401 <=> KeyAccepted(checked')
          /\ checked'.status = 401 => UNCHANGED <<dbVars, purchases, device_activations>>
          /\ ~KeyAccepted(checked') => UNCHANGED <<dbVars, purchases, device_activations>>]_vars

\* with ADMIN_API_KEY not configured, a request with an empty X-API-Key has
\* been answered 401
C29_Witness ==
    /\ checked.of = "api_generate"
    /\ config.ADMIN_API_KEY = ""
    /\ checked.api_key = ""
    /\ checked.status = 401
    /\ activations = {}
    /\ activations_csv = <<>>

\* C30 as claimed: for every product name parse_product_type gives the type
\* that the inline classification of webhook_gumroad and of manual_activate
\* gives.
C30_SameClassification ==
    checked.of = "classify" =>
        /\ checked.parse_product_type = checked.webhook_gumroad
        /\ checked.parse_product_type = checked.manual_activate

\* the two inline classifications agree with each other on every name
C30_InlineAgree ==
    checked.of = "classify" => checked.webhook_gumroad = checked.manual_activate

====
